---- MODULE Spec2Model ----
(***************************************************************************)
(* World Savings Day contest bot (src/main.py): the six-step registration  *)
(* conversation, the JSON registry, the retrying video download, the       *)
(* organizer notifications and the organizer commands.                     *)
(*                                                                         *)
(* The handlers are coroutines run by a python-telegram-bot Application    *)
(* built with Application.builder() and no concurrent_updates: the         *)
(* application awaits the handler of one update before it takes the next   *)
(* one, so at most one handler is in flight (task) and updates that arrive *)
(* while it is suspended at an await wait in the update queue (queue).     *)
(* A handler is followed through its awaits: task.pc is its position.      *)
(*                                                                         *)
(* The ConversationHandler of build_app keeps one state per (chat, user)   *)
(* (conv); the value a state handler returns becomes the new state, END    *)
(* removes the conversation, and a handler that returns the Message object *)
(* of reply_text / edit_text leaves that object as the state (Message).    *)
(* context.user_data is one dict per user (user_data).                     *)
(*                                                                         *)
(* Replies to the sender are taken to be delivered; the calls the code     *)
(* guards with try/except (download, organizer DMs, broadcast sends) may   *)
(* fail.                                                                   *)
(***************************************************************************)
EXTENDS Integers, Sequences, FiniteSets, TLC

\* ---------------------------------------------------------------- bounds
MaxStarts == 2     \* /start commands the environment sends in one run
MaxQueue == 1      \* updates that may wait while a handler is in flight
MaxRecords == 5    \* records in the registry document found at startup

\* ------------------------------------------------------------ environment
Users == {1, 2}                 \* identities that send updates
GroupChat == 9                  \* a group the bot is a member of
Chats == Users \cup {GroupChat}  \* the private chat of user u has id u
PrivateChats == {<<u, u>> : u \in Users}   \* <<chat, user>> pairs

ORGANIZER_IDS == <<2, 3>>

MaxAttempts_four == 3 + 1
MaxAttempts_two == 3 - 1

MaxAttempts == 3
SizeLimit == 200 * 1024 * 1024

Now == "now"                    \* datetime.now(TZ), one reading
VIDEOS_DIR == "/tmp/videos"

\* ----------------------------------------------------------------- states
LANG == "LANG"
UNI == "UNI"
YEAR == "YEAR"
FULLNAME == "FULLNAME"
PHONE == "PHONE"
VIDEO == "VIDEO"
END == "END"
NoConversation == "NoConversation"   \* key absent from the conversations dict
MessageObject == "Message"           \* a telegram Message returned as state
NoReturn == "None"                   \* handler outside the conversation

States == {LANG, UNI, YEAR, FULLNAME, PHONE, VIDEO}

\* ---------------------------------------------------------------- strings
\* A string is a sequence of symbols; a command name is one symbol.
IsSpace(ch) == ch \in {" ", "\n", "\t"}

RECURSIVE LStrip(_)
LStrip(s) == IF s # <<>> /\ IsSpace(Head(s)) THEN LStrip(Tail(s)) ELSE s

RECURSIVE RStrip(_)
RStrip(s) ==
    IF s # <<>> /\ IsSpace(s[Len(s)]) THEN RStrip(SubSeq(s, 1, Len(s) - 1)) ELSE s

Strip(s) == RStrip(LStrip(s))

Replace(s, a, b) == [i \in 1..Len(s) |-> IF s[i] = a THEN b ELSE s[i]]

\* str.partition(sep)[2]: what follows the first sep, empty when there is none
RECURSIVE PartitionTail(_, _)
PartitionTail(s, sep) ==
    IF s = <<>> THEN <<>>
    ELSE IF Head(s) = sep THEN Tail(s)
    ELSE PartitionTail(Tail(s), sep)

\* q.data.split(":")[1] of callback data <<prefix, value>> ("prefix:value")
SplitArg(data) == data[2]

\* dict helpers: a dict is a function on the set of its keys
Put(d, k, v) == [x \in (DOMAIN d) \cup {k} |-> IF x = k THEN v ELSE d[x]]
Get(d, k) == IF k \in DOMAIN d THEN <<d[k]>> ELSE <<>>   \* <<>> is None
GetOr(d, k, default) == IF k \in DOMAIN d THEN d[k] ELSE default

\* ------------------------------------------------------------------ texts
t(lang, key) == <<key, IF lang \in {"uz", "ru"} THEN lang ELSE "uz">>

StartText == <<"start", "uz+ru">>
AdminOnlyText == <<"admin_only", "uz+ru">>
UsageText == <<"broadcast_usage", "uz+ru">>
WhoamiText == <<"whoami", "uz+ru">>
CountText == <<"registered_count", "uz+ru">>
ReportText == <<"broadcast_report", "uz+ru">>
BroadcastText == <<"broadcast", "">>
SummaryText(lang) == <<"summary", IF lang = "uz" THEN "uz" ELSE "ru">>
DownloadFailedText(lang) == <<"download_failed", IF lang = "uz" THEN "uz" ELSE "ru">>

\* --------------------------------------------------------------- registry
AbsentDoc == [exists |-> FALSE, parses |-> FALSE, json |-> <<>>]

\* a document that json.loads rejects: what it holds is no list of records
CorruptDoc == [exists |-> TRUE, parses |-> FALSE, json |-> <<"{">>]

\* json.dumps / json.loads of a list of records
Dumps(data) == [exists |-> TRUE, parses |-> TRUE, json |-> data]
Loads(d) == d.json

_load_registry_blank(d) == <<>>

_load_registry_unguarded(d) == IF ~d.exists THEN <<>> ELSE Loads(d)

_load_registry(d) ==
    IF ~d.exists THEN <<>>
    ELSE IF d.parses THEN Loads(d) ELSE <<>>

_save_registry(data) == Dumps(data)

add_record_lost(d, rec) == _save_registry(<<rec>>)

add_record_unique(d, rec) ==
    IF \E i \in 1..Len(_load_registry(d)) : _load_registry(d)[i].id = rec.id
    THEN d
    ELSE _save_registry(Append(_load_registry(d), rec))

add_record(d, rec) == _save_registry(Append(_load_registry(d), rec))

\* ----------------------------------------------------------------- admins
_is_admin_nonempty(uid) == Len(ORGANIZER_IDS) > 0

_is_admin(uid) == \E i \in 1..Len(ORGANIZER_IDS) : ORGANIZER_IDS[i] = uid

\* ---------------------------------------------------------------- updates
NoMedia == [type |-> "none", mime |-> "", size |-> 0, file_id |-> ""]

\* file_size 0 stands for a file_size the gateway does not report (None)
MediaItems ==
    { [type |-> "video", mime |-> "video/mp4", size |-> s, file_id |-> "f"] :
          s \in {SizeLimit, SizeLimit + 1} }
    \cup
    { [type |-> "document", mime |-> "video/mp4", size |-> 0, file_id |-> "f"],
      [type |-> "document", mime |-> "application/pdf", size |-> 1, file_id |-> "f"] }

LangButtons == {<<"lang", "uz">>, <<"lang", "ru">>}
UniButtons == {<<"uni", "TDIU">>}
YearButtons == {<<"year", "1">>}
Buttons == LangButtons \cup UniButtons \cup YearButtons

Texts == { <<" ">>, <<" ", "A", " ", "B">> }

CommandTexts ==
    { <<"/start">>, <<"/whoami">>, <<"/registered_count">>,
      <<"/broadcast">>, <<"/broadcast", " ", " ">>, <<"/broadcast", " ", "h", "i">> }

Update(c, u, kind, text, data, media) ==
    [chat |-> c, user |-> u, kind |-> kind, text |-> text, data |-> data,
     media |-> media]

UpdatesOf(c, u) ==
    { Update(c, u, "text", x, <<"", "">>, NoMedia) : x \in Texts \cup CommandTexts }
    \cup { Update(c, u, "callback", <<>>, b, NoMedia) : b \in Buttons }
    \cup { Update(c, u, "media", <<>>, <<"", "">>, m) : m \in MediaItems }

IsCommand(upd) == upd.kind = "text" /\ upd.text # <<>> /\ Head(upd.text) \in
    {"/start", "/whoami", "/registered_count", "/broadcast"}

Command(upd, name) == IsCommand(upd) /\ Head(upd.text) = name

\* filters.VIDEO and filters.Document.VIDEO
FilterVideo(upd) == upd.kind = "media" /\ upd.media.type = "video"
FilterDocumentVideo(upd) ==
    /\ upd.kind = "media"
    /\ upd.media.type = "document"
    /\ upd.media.mime \in {"video/mp4"}
FilterText(upd) == upd.kind = "text" /\ upd.text # <<>> /\ ~IsCommand(upd)


\* ------------------------------------------------------------------ state
VARIABLES
    conv,        \* ConversationHandler._conversations: <<chat, user>> -> state
    user_data,   \* context.user_data of each user: a dict
    kb,          \* the inline buttons shown in each chat: all, the last menu, and
                 \* whether the earlier messages are still in the chat (history)
    doc,         \* the registry document at REG_DB_PATH
    task,        \* the handler in flight, Idle when there is none
    queue,       \* updates received while a handler is in flight
    handed,      \* history: the records passed to add_record, in order
    starts       \* history: /start commands sent so far

vars == <<conv, user_data, kb, doc, task, queue, handed, starts>>

NoButtons == [all |-> {}, last |-> {}, history |-> FALSE]
Show(k, buttons) == [k EXCEPT !.all = @ \cup buttons, !.last = buttons]

NoUpdate == Update(0, 0, "none", <<>>, <<"", "">>, NoMedia)
NoPath == [dir |-> "", name |-> <<>>, uid |-> 0, ts |-> ""]

Idle ==
    [pc |-> "idle", h |-> "", upd |-> NoUpdate, during |-> "", by |-> 0,
     log |-> <<>>, ret |-> NoReturn, loads |-> 0, lang |-> "",
     filepath |-> NoPath, success |-> FALSE, outcomes |-> <<>>, sleeps |-> 0,
     i |-> 0, before |-> AbsentDoc,
     data |-> <<>>, msg |-> <<>>, ok |-> 0, fail |-> 0]

Ev(ev, to, text, n, m) == [ev |-> ev, to |-> to, text |-> text, n |-> n, m |-> m]
Reply(upd, text) == Ev("reply", upd.chat, text, 0, 0)
Edit(upd, text) == Ev("edit", upd.chat, text, 0, 0)
Answer(upd) == Ev("answer", upd.chat, <<"", "">>, 0, 0)

Key(upd) == <<upd.chat, upd.user>>

Init ==
    /\ conv = [k \in Chats \X Users |-> NoConversation]
    /\ user_data = [u \in Users |-> <<>>]
    /\ kb = [c \in Chats |-> NoButtons]
    /\ doc = AbsentDoc
    /\ task = Idle
    /\ queue = <<>>
    /\ handed = <<>>
    /\ starts = 0

\* ---------------------------------------------------------------- dispatch
ConvHandlers ==
    {"start", "on_lang", "on_uni", "on_year", "on_fullname", "on_phone", "on_video"}

ConvCheck_reentry(state, upd) ==
    IF Command(upd, "/start") THEN "start"
    ELSE IF state = LANG /\ upd.kind = "callback" THEN "on_lang"
    ELSE IF state = UNI /\ upd.kind = "callback" THEN "on_uni"
    ELSE IF state = YEAR /\ upd.kind = "callback" THEN "on_year"
    ELSE IF state = FULLNAME /\ FilterText(upd) THEN "on_fullname"
    ELSE IF state = PHONE /\ FilterText(upd) THEN "on_phone"
    ELSE IF state = VIDEO /\ (FilterVideo(upd) \/ FilterDocumentVideo(upd))
    THEN "on_video"
    ELSE "none"

\* ConversationHandler.check_update for the handlers of build_app: the entry
\* point is tried only when the key has no state; otherwise the handlers of the
\* state, and states.get(state, []) is empty for a state that is no key.
ConvCheck(state, upd) ==
    IF state = NoConversation
    THEN IF Command(upd, "/start") THEN "start" ELSE "none"
    ELSE IF state = LANG /\ upd.kind = "callback" THEN "on_lang"
    ELSE IF state = UNI /\ upd.kind = "callback" THEN "on_uni"
    ELSE IF state = YEAR /\ upd.kind = "callback" THEN "on_year"
    ELSE IF state = FULLNAME /\ FilterText(upd) THEN "on_fullname"
    ELSE IF state = PHONE /\ FilterText(upd) THEN "on_phone"
    ELSE IF state = VIDEO /\ (FilterVideo(upd) \/ FilterDocumentVideo(upd))
    THEN "on_video"
    ELSE "none"

\* the handlers of group 0 in the order build_app adds them
Handler(upd) ==
    LET h == ConvCheck(conv[Key(upd)], upd)
    IN  IF h # "none" THEN h
        ELSE IF Command(upd, "/whoami") THEN "whoami"
        ELSE IF Command(upd, "/registered_count") THEN "registered_count"
        ELSE IF Command(upd, "/broadcast") THEN "broadcast"
        ELSE "none"

\* ConversationHandler._update_state
_update_state(c, key, new_state) ==
    IF new_state = END THEN [c EXCEPT ![key] = NoConversation]
    ELSE IF new_state # NoReturn THEN [c EXCEPT ![key] = new_state]
    ELSE c

StartCount(upd) == IF Command(upd, "/start") THEN 1 ELSE 0

\* what the users can send now: a button of the menu the bot showed last in the
\* chat or, where the earlier messages are still in the chat, of any menu it
\* has shown there; and no more than MaxStarts /start commands in all
Arrives(upd) ==
    /\ upd.kind = "callback" =>
          upd.data \in (IF kb[upd.chat].history THEN kb[upd.chat].all
                        ELSE kb[upd.chat].last)
    /\ Command(upd, "/start") => starts < MaxStarts

\* The application takes the next update: the head of the queue, or, with the
\* queue empty, an update that arrives now.
Fetch(upd) ==
    /\ task.pc = "idle"
    /\ \/ /\ queue = <<>>
          /\ Arrives(upd)
          /\ starts' = starts + StartCount(upd)
          /\ queue' = queue
       \/ /\ queue # <<>>
          /\ upd = Head(queue).upd
          /\ queue' = Tail(queue)
          /\ starts' = starts

Begin(upd, h) ==
    [Idle EXCEPT !.pc = "return", !.h = h, !.upd = upd, !.before = doc,
                 !.during = IF queue # <<>> THEN Head(queue).during ELSE "",
                 !.by = IF queue # <<>> THEN Head(queue).by ELSE 0]

\* An update arrives while a handler is in flight.
Enqueue(upd) ==
    /\ task.pc # "idle"
    /\ Len(queue) < MaxQueue
    /\ Arrives(upd)
    /\ queue' = Append(queue, [upd |-> upd, during |-> task.h, by |-> task.upd.user])
    /\ starts' = starts + StartCount(upd)
    /\ UNCHANGED <<conv, user_data, kb, doc, task, handed>>

\* No handler of the application accepts the update.
Ignore(upd) ==
    /\ Fetch(upd)
    /\ Handler(upd) = "none"
    /\ UNCHANGED <<conv, user_data, kb, doc, task, handed>>

\* The handler has returned: the conversation takes its return value as state.
Return ==
    /\ task.pc = "return"
    /\ conv' = IF task.h \in ConvHandlers
               THEN _update_state(conv, Key(task.upd), task.ret)
               ELSE conv
    /\ task' = Idle
    /\ UNCHANGED <<user_data, kb, doc, queue, handed, starts>>

\* ------------------------------------------------------- the text handlers
start(upd) ==
    /\ Fetch(upd)
    /\ Handler(upd) = "start"
    /\ kb' = [kb EXCEPT ![upd.chat] = Show(@, LangButtons)]
    /\ task' = [Begin(upd, "start") EXCEPT !.log = <<Reply(upd, StartText)>>,
                                           !.ret = LANG]
    /\ UNCHANGED <<conv, user_data, doc, handed>>

on_lang(upd) ==
    /\ Fetch(upd)
    /\ Handler(upd) = "on_lang"
    /\ LET lang == SplitArg(upd.data)
       IN  /\ user_data' = [user_data EXCEPT ![upd.user] = Put(@, "lang", lang)]
           /\ task' = [Begin(upd, "on_lang") EXCEPT
                          !.log = <<Answer(upd), Reply(upd, t(lang, "university"))>>,
                          !.ret = UNI]
    /\ kb' = [kb EXCEPT ![upd.chat] = Show(@, UniButtons)]
    /\ UNCHANGED <<conv, doc, handed>>

on_uni(upd) ==
    /\ Fetch(upd)
    /\ Handler(upd) = "on_uni"
    /\ user_data' = [user_data EXCEPT ![upd.user] =
                        Put(@, "university", SplitArg(upd.data))]
    /\ task' = [Begin(upd, "on_uni") EXCEPT
                   !.log = <<Answer(upd),
                             Reply(upd, t(user_data[upd.user]["lang"], "year"))>>,
                   !.ret = YEAR]
    /\ kb' = [kb EXCEPT ![upd.chat] = Show(@, YearButtons)]
    /\ UNCHANGED <<conv, doc, handed>>

on_year(upd) ==
    /\ Fetch(upd)
    /\ Handler(upd) = "on_year"
    /\ user_data' = [user_data EXCEPT ![upd.user] = Put(@, "year", SplitArg(upd.data))]
    /\ task' = [Begin(upd, "on_year") EXCEPT
                   !.log = <<Answer(upd),
                             Reply(upd, t(user_data[upd.user]["lang"], "fullname"))>>,
                   !.ret = FULLNAME]
    /\ UNCHANGED <<conv, kb, doc, handed>>

on_fullname(upd) ==
    /\ Fetch(upd)
    /\ Handler(upd) = "on_fullname"
    /\ user_data' = [user_data EXCEPT ![upd.user] = Put(@, "fullname", Strip(upd.text))]
    /\ task' = [Begin(upd, "on_fullname") EXCEPT
                   !.log = <<Reply(upd, t(user_data[upd.user]["lang"], "phone"))>>,
                   !.ret = PHONE]
    /\ UNCHANGED <<conv, kb, doc, handed>>

on_phone(upd) ==
    /\ Fetch(upd)
    /\ Handler(upd) = "on_phone"
    /\ user_data' = [user_data EXCEPT ![upd.user] = Put(@, "phone", Strip(upd.text))]
    /\ task' = [Begin(upd, "on_phone") EXCEPT
                   !.log = <<Reply(upd, t(user_data[upd.user]["lang"], "video"))>>,
                   !.ret = VIDEO]
    /\ UNCHANGED <<conv, kb, doc, handed>>


\* ---------------------------------------------------------------- on_video
VideoObj(upd) ==
    IF upd.media.type = "video" THEN upd.media
    ELSE IF upd.media.type = "document" /\ upd.media.mime \in {"video/mp4"}
    THEN upd.media
    ELSE NoMedia

TooLarge_bits(video_obj) == video_obj.size # 0 /\ video_obj.size > SizeLimit * 8

TooLarge(video_obj) == video_obj.size # 0 /\ video_obj.size > SizeLimit

SafeName(ud) ==
    Replace(Replace(Replace(GetOr(ud, "fullname", <<"unknown">>), " ", "_"),
                    "/", "_"), "\\", "_")

FilePath(ud, uid) == [dir |-> VIDEOS_DIR, name |-> SafeName(ud), uid |-> uid, ts |-> Now]

Rec_wrong_key(upd, lang, ud, filepath) ==
    [id |-> upd.user,
     ts |-> Now,
     lang |-> lang,
     university |-> Get(ud, "university"),
     year |-> Get(ud, "year"),
     fullname |-> Get(ud, "fullname"),
     phone |-> Get(ud, "phone_number"),
     video_file_id |-> VideoObj(upd).file_id,
     video_path |-> filepath]

Rec(upd, lang, ud, filepath) ==
    [id |-> upd.user,
     ts |-> Now,
     lang |-> lang,
     university |-> Get(ud, "university"),
     year |-> Get(ud, "year"),
     fullname |-> Get(ud, "fullname"),
     phone |-> Get(ud, "phone"),
     video_file_id |-> VideoObj(upd).file_id,
     video_path |-> filepath]

\* lines 194-217: the checks before the download, up to the first attempt
on_video(upd) ==
    /\ Fetch(upd)
    /\ Handler(upd) = "on_video"
    /\ LET lang == GetOr(user_data[upd.user], "lang", "uz")
           video_obj == VideoObj(upd)
           b == [Begin(upd, "on_video") EXCEPT !.lang = lang]
       IN  task' =
             IF video_obj = NoMedia
             THEN [b EXCEPT !.log = <<Reply(upd, t(lang, "invalid_video"))>>,
                            !.ret = MessageObject]
             ELSE IF TooLarge(video_obj)
             THEN [b EXCEPT !.log = <<Reply(upd, t(lang, "too_large"))>>,
                            !.ret = MessageObject]
             ELSE [b EXCEPT !.log = <<Reply(upd, t(lang, "downloading"))>>,
                            !.filepath = FilePath(user_data[upd.user], upd.user),
                            !.pc = "download"]
    /\ UNCHANGED <<conv, user_data, kb, doc, handed>>

\* lines 222-231: one pass of the retry loop; fetched is whether get_file and
\* download_to_drive both returned. outcomes is the history of the passes,
\* sleeps counts the asyncio.sleep(3) calls.
Attempt(fetched) ==
    /\ task.pc = "download"
    /\ Len(task.outcomes) < MaxAttempts
    /\ task' =
         IF fetched
         THEN [task EXCEPT !.outcomes = Append(@, TRUE),
                           !.success = TRUE,
                           !.pc = "after_loop"]
         ELSE [task EXCEPT !.outcomes = Append(@, FALSE),
                           !.sleeps = @ + 1,
                           !.pc = IF Len(task.outcomes) + 1 < MaxAttempts
                                  THEN "download" ELSE "after_loop"]
    /\ UNCHANGED <<conv, user_data, kb, doc, queue, handed, starts>>

\* lines 233-239
DownloadFailed ==
    /\ task.pc = "after_loop"
    /\ ~task.success
    /\ task' = [task EXCEPT !.log = Append(@, Edit(task.upd, DownloadFailedText(task.lang))),
                            !.ret = MessageObject,
                            !.pc = "return"]
    /\ UNCHANGED <<conv, user_data, kb, doc, queue, handed, starts>>

SaveRecord_reply_first ==
    /\ task.pc = "after_loop"
    /\ task.success
    /\ LET rec == Rec(task.upd, task.lang, user_data[task.upd.user], task.filepath)
       IN  /\ doc' = add_record(doc, rec)
           /\ handed' = Append(handed, rec)
           /\ task' = [task EXCEPT
                          !.log = @ \o <<Edit(task.upd, t(task.lang, "done")),
                                         Ev("add_record", rec.id, <<"", "">>, 0, 0)>>,
                          !.loads = @ + 1,
                          !.i = 1,
                          !.pc = "notify"]
    /\ UNCHANGED <<conv, user_data, kb, queue, starts>>

\* lines 241-255
SaveRecord ==
    /\ task.pc = "after_loop"
    /\ task.success
    /\ LET rec == Rec(task.upd, task.lang, user_data[task.upd.user], task.filepath)
       IN  /\ doc' = add_record(doc, rec)
           /\ handed' = Append(handed, rec)
           /\ task' = [task EXCEPT
                          !.log = @ \o <<Ev("add_record", rec.id, <<"", "">>, 0, 0),
                                         Edit(task.upd, t(task.lang, "done"))>>,
                          !.loads = @ + 1,
                          !.i = 1,
                          !.pc = "notify"]
    /\ UNCHANGED <<conv, user_data, kb, queue, starts>>

NotifyAdmin_abort(sent) ==
    /\ task.pc = "notify"
    /\ task.i <= Len(ORGANIZER_IDS)
    /\ LET aid == ORGANIZER_IDS[task.i]
           s == Ev("send", aid, SummaryText(task.lang), 0, 0)
           f == Ev("forward", aid, <<"", "">>, 0, 0)
           sx == Ev("send_failed", aid, SummaryText(task.lang), 0, 0)
           fx == Ev("forward_failed", aid, <<"", "">>, 0, 0)
       IN  task' = [task EXCEPT
                       !.log = @ \o (IF sent = 0 THEN <<sx>>
                                     ELSE IF sent = 1 THEN <<s, fx>>
                                     ELSE <<s, f>>),
                       !.i = IF sent = 2 THEN @ + 1 ELSE Len(ORGANIZER_IDS) + 1]
    /\ UNCHANGED <<conv, user_data, kb, doc, queue, handed, starts>>

\* lines 268-277: one organizer; sent is how far the two sends got
NotifyAdmin(sent) ==
    /\ task.pc = "notify"
    /\ task.i <= Len(ORGANIZER_IDS)
    /\ LET aid == ORGANIZER_IDS[task.i]
           s == Ev("send", aid, SummaryText(task.lang), 0, 0)
           f == Ev("forward", aid, <<"", "">>, 0, 0)
           sx == Ev("send_failed", aid, SummaryText(task.lang), 0, 0)
           fx == Ev("forward_failed", aid, <<"", "">>, 0, 0)
       IN  task' = [task EXCEPT
                       !.log = @ \o (IF sent = 0 THEN <<sx>>
                                     ELSE IF sent = 1 THEN <<s, fx>>
                                     ELSE <<s, f>>),
                       !.i = @ + 1]
    /\ UNCHANGED <<conv, user_data, kb, doc, queue, handed, starts>>

\* line 279
VideoDone ==
    /\ task.pc = "notify"
    /\ task.i > Len(ORGANIZER_IDS)
    /\ task' = [task EXCEPT !.ret = END, !.pc = "return"]
    /\ UNCHANGED <<conv, user_data, kb, doc, queue, handed, starts>>

\* ------------------------------------------------------------------ admin
whoami(upd) ==
    /\ Fetch(upd)
    /\ Handler(upd) = "whoami"
    /\ task' = [Begin(upd, "whoami") EXCEPT
                   !.log = <<Ev("reply", upd.chat, WhoamiText, upd.user, 0)>>]
    /\ UNCHANGED <<conv, user_data, kb, doc, handed>>

registered_count(upd) ==
    /\ Fetch(upd)
    /\ Handler(upd) = "registered_count"
    /\ task' =
         IF ~_is_admin(upd.user)
         THEN [Begin(upd, "registered_count") EXCEPT
                  !.log = <<Reply(upd, AdminOnlyText)>>]
         ELSE LET data == _load_registry(doc)
              IN  [Begin(upd, "registered_count") EXCEPT
                      !.loads = 1,
                      !.log = <<Ev("reply", upd.chat, CountText, Len(data), 0)>>]
    /\ UNCHANGED <<conv, user_data, kb, doc, handed>>

\* lines 296-302
broadcast(upd) ==
    /\ Fetch(upd)
    /\ Handler(upd) = "broadcast"
    /\ LET msg == Strip(PartitionTail(upd.text, " "))
           b == Begin(upd, "broadcast")
       IN  task' =
             IF ~_is_admin(upd.user)
             THEN [b EXCEPT !.log = <<Reply(upd, AdminOnlyText)>>]
             ELSE IF msg = <<>>
             THEN [b EXCEPT !.log = <<Reply(upd, UsageText)>>]
             ELSE [b EXCEPT !.msg = msg,
                            !.data = _load_registry(doc),
                            !.loads = 1,
                            !.i = 1,
                            !.pc = "sending"]
    /\ UNCHANGED <<conv, user_data, kb, doc, handed>>

BroadcastSend_abort(delivered) ==
    /\ task.pc = "sending"
    /\ task.i <= Len(task.data)
    /\ LET r == task.data[task.i]
       IN  task' =
             IF delivered
             THEN [task EXCEPT !.log = Append(@, Ev("send", r.id, BroadcastText, 0, 0)),
                               !.ok = @ + 1,
                               !.i = @ + 1]
             ELSE [task EXCEPT !.log = Append(@, Ev("send_failed", r.id, BroadcastText, 0, 0)),
                               !.fail = @ + 1,
                               !.i = Len(task.data) + 1]
    /\ UNCHANGED <<conv, user_data, kb, doc, queue, handed, starts>>

\* lines 303-309: the send to one record; delivered is whether it raised
BroadcastSend(delivered) ==
    /\ task.pc = "sending"
    /\ task.i <= Len(task.data)
    /\ LET r == task.data[task.i]
       IN  task' =
             IF delivered
             THEN [task EXCEPT !.log = Append(@, Ev("send", r.id, BroadcastText, 0, 0)),
                               !.ok = @ + 1,
                               !.i = @ + 1]
             ELSE [task EXCEPT !.log = Append(@, Ev("send_failed", r.id, BroadcastText, 0, 0)),
                               !.fail = @ + 1,
                               !.i = @ + 1]
    /\ UNCHANGED <<conv, user_data, kb, doc, queue, handed, starts>>

\* line 310
BroadcastReport ==
    /\ task.pc = "sending"
    /\ task.i > Len(task.data)
    /\ task' = [task EXCEPT
                   !.log = Append(@, Ev("reply", task.upd.chat, ReportText, task.ok, task.fail)),
                   !.pc = "return"]
    /\ UNCHANGED <<conv, user_data, kb, doc, queue, handed, starts>>

\* ------------------------------------------------------------ specification
Senders(pairs) == UNION { UpdatesOf(p[1], p[2]) : p \in pairs }

ConvHandle(upd) ==
    \/ start(upd)
    \/ on_lang(upd)
    \/ on_uni(upd)
    \/ on_year(upd)
    \/ on_fullname(upd)
    \/ on_phone(upd)
    \/ on_video(upd)
    \/ Ignore(upd)

AdminHandle(upd) ==
    \/ whoami(upd)
    \/ registered_count(upd)
    \/ broadcast(upd)

VideoSteps ==
    \/ \E fetched \in BOOLEAN : Attempt(fetched)
    \/ DownloadFailed
    \/ SaveRecord
    \/ \E sent \in 0..2 : NotifyAdmin(sent)
    \/ VideoDone

BroadcastSteps ==
    \/ \E delivered \in BOOLEAN : BroadcastSend(delivered)
    \/ BroadcastReport

\* Every user in their private chat; the application
\* handles one update at a time, in the order of arrival.
Next ==
    \/ \E upd \in Senders(PrivateChats) : ConvHandle(upd) \/ AdminHandle(upd)
    \/ VideoSteps
    \/ BroadcastSteps
    \/ Return

Spec == Init /\ [][Next]_vars

\* Two contestants whose videos may arrive while a handler is suspended at an
\* await: they wait in the queue until the handler in flight has returned.
OverlapUpdates ==
    { upd \in Senders(PrivateChats) :
         \/ Command(upd, "/start")
         \/ upd.kind = "callback"
         \/ upd.kind = "text" /\ upd.text = <<" ", "A", " ", "B">>
         \/ upd.kind = "media" /\ upd.media.type = "video" }

OverlapVideos ==
    { upd \in OverlapUpdates : upd.kind = "media" /\ upd.media.size = SizeLimit }

NextOverlap ==
    \/ \E upd \in OverlapUpdates : ConvHandle(upd)
    \/ \E upd \in OverlapVideos : Enqueue(upd)
    \/ VideoSteps
    \/ Return

SpecOverlap == Init /\ [][NextOverlap]_vars

\* The bot starts with the registry document that earlier runs left at
\* REG_DB_PATH: none, one that does not parse, or one that holds the records of
\* earlier submissions; an organizer (user 2) sends the organizer commands.
StoredRec(uid) ==
    LET answers == [lang |-> "uz", university |-> "TDIU", year |-> "1",
                    fullname |-> <<"A", " ", "B">>, phone |-> <<"A", " ", "B">>]
        upd == Update(uid, uid, "media", <<>>, <<"", "">>,
                      [type |-> "video", mime |-> "video/mp4", size |-> SizeLimit,
                       file_id |-> "f"])
    IN  Rec(upd, "uz", answers, FilePath(answers, uid))

StoredDocs ==
    {AbsentDoc, CorruptDoc} \cup
    { Dumps(data) : data \in UNION { [1..n -> {StoredRec(u) : u \in Users}] :
                                        n \in 0..MaxRecords } }

InitStored ==
    /\ conv = [k \in Chats \X Users |-> NoConversation]
    /\ user_data = [u \in Users |-> <<>>]
    /\ kb = [c \in Chats |-> NoButtons]
    /\ doc \in StoredDocs
    /\ task = Idle
    /\ queue = <<>>
    /\ handed = <<>>
    /\ starts = 0

NextBroadcast ==
    \/ \E upd \in UpdatesOf(2, 2) : AdminHandle(upd)
    \/ BroadcastSteps
    \/ Return

SpecBroadcast == InitStored /\ [][NextBroadcast]_vars

\* The bot starts with no registry document or with one that does not parse;
\* user 1 is a contestant, user 2 an organizer.
InitRestart ==
    /\ conv = [k \in Chats \X Users |-> NoConversation]
    /\ user_data = [u \in Users |-> <<>>]
    /\ kb = [c \in Chats |-> NoButtons]
    /\ doc \in {AbsentDoc, CorruptDoc}
    /\ task = Idle
    /\ queue = <<>>
    /\ handed = <<>>
    /\ starts = 0

NextRestart ==
    \/ \E upd \in UpdatesOf(1, 1) : ConvHandle(upd)
    \/ \E upd \in UpdatesOf(2, 2) : AdminHandle(upd)
    \/ VideoSteps
    \/ BroadcastSteps
    \/ Return

SpecRestart == InitRestart /\ [][NextRestart]_vars

\* User 1 talks to the bot in their private chat and in a group the bot is a
\* member of: the ConversationHandler of build_app keeps one conversation per
\* (chat, user), context.user_data is one dict per user.
TwoChats == {<<1, 1>>, <<GroupChat, 1>>}

NextGroup ==
    \/ \E upd \in Senders(TwoChats) : ConvHandle(upd)
    \/ VideoSteps
    \/ Return

SpecGroup == Init /\ [][NextGroup]_vars

\* User 1 alone, in a chat that keeps the earlier messages of the bot: the
\* buttons of the earlier menus can still be pressed.
InitStale ==
    /\ conv = [k \in Chats \X Users |-> NoConversation]
    /\ user_data = [u \in Users |-> <<>>]
    /\ kb = [c \in Chats |-> [NoButtons EXCEPT !.history = TRUE]]
    /\ doc = AbsentDoc
    /\ task = Idle
    /\ queue = <<>>
    /\ handed = <<>>
    /\ starts = 0

StaleUpdates ==
    { upd \in UpdatesOf(1, 1) :
         \/ Command(upd, "/start")
         \/ upd.kind = "callback"
         \/ upd.kind = "text" /\ upd.text = <<" ", "A", " ", "B">>
         \/ upd.kind = "media" /\ upd.media.type = "video"
                               /\ upd.media.size = SizeLimit }

NextStale ==
    \/ \E upd \in StaleUpdates : ConvHandle(upd)
    \/ VideoSteps
    \/ Return

SpecStale == InitStale /\ [][NextStale]_vars


\* ------------------------------------------------------------------ claims
\* the records the document holds, read off the document itself
Stored(d) == IF d.exists /\ d.parses THEN d.json ELSE <<>>

Registry == Stored(doc)

IsPrefix(a, b) == Len(a) <= Len(b) /\ SubSeq(b, 1, Len(a)) = a

ValidVideo(upd) ==
    /\ FilterVideo(upd) \/ FilterDocumentVideo(upd)
    /\ upd.media.size <= SizeLimit

Populated(r) ==
    /\ r.id \in Users
    /\ r.ts # ""
    /\ r.lang # ""
    /\ r.university # <<>>
    /\ r.year # <<>>
    /\ r.fullname # <<>>
    /\ r.phone # <<>>
    /\ r.video_file_id # ""
    /\ r.video_path # NoPath

OperatorEvents == {"send", "send_failed", "forward", "forward_failed"}

EventsOf(log, kinds) == { i \in 1..Len(log) : log[i].ev \in kinds }

VideoFailed == task.h = "on_video" /\ task.pc = "return" /\ task.ret # END

\* C1: after a video-step failure (oversize media, or every download attempt
\* failing) the conversation is still in VIDEO with the user's answers as they
\* were, so that a valid video sent next is taken by on_video.
C1_VideoFailureKeepsVideoState ==
    [][ VideoFailed =>
          /\ conv'[Key(task.upd)] = VIDEO
          /\ user_data'[task.upd.user] = user_data[task.upd.user] ]_vars

Forward ==
    { <<NoConversation, LANG>>, <<LANG, UNI>>, <<UNI, YEAR>>, <<YEAR, FULLNAME>>,
      <<FULLNAME, PHONE>>, <<PHONE, VIDEO>>, <<VIDEO, NoConversation>> }

OwnHandler ==
    [university |-> "on_uni", year |-> "on_year", fullname |-> "on_fullname",
     phone |-> "on_phone"]

\* C2: the state of a conversation only moves one step forward along
\* LANG, UNI, YEAR, FULLNAME, PHONE, VIDEO, END, and each of university, year,
\* fullname and phone is written by the handler of its own step only.
C2_StateMovesOneStepForward ==
    [][ /\ \A k \in Chats \X Users :
              conv'[k] = conv[k] \/ <<conv[k], conv'[k]>> \in Forward
        /\ \A u \in Users : \A f \in DOMAIN OwnHandler :
              Get(user_data'[u], f) # Get(user_data[u], f) =>
                  /\ task'.h = OwnHandler[f]
                  /\ task'.upd.user = u ]_vars

\* C3: the registry changes only when on_video, run for a conversation in VIDEO
\* on a valid video, has downloaded it; the change appends one record, every
\* field of which is set; and a handler that ends the conversation has
\* appended exactly one record.
C3_RecordOnlyOnCompletedFlow ==
    /\ [][ doc' # doc =>
             /\ task.h = "on_video" /\ task.pc = "after_loop"
             /\ task.outcomes # <<>> /\ task.outcomes[Len(task.outcomes)]
             /\ conv[Key(task.upd)] = VIDEO
             /\ ValidVideo(task.upd)
             /\ Len(Stored(doc')) = Len(Registry) + 1
             /\ IsPrefix(Registry, Stored(doc'))
             /\ Populated(Stored(doc')[Len(Registry) + 1])
             /\ Stored(doc')[Len(Registry) + 1].id = task.upd.user
             /\ task'.pc = "notify" ]_vars
    /\ [](task.h = "on_video" /\ task.pc \in {"notify", "return"} /\ task.success =>
             Len(Registry) = Len(Stored(task.before)) + 1)
    /\ [](\A i \in 1..Len(Registry) : Populated(Registry[i]))

W_C3 ==
    /\ task.h = "on_video" /\ task.pc = "return" /\ task.ret = END
    /\ Len(Registry) = 2

\* C4: at most 3 download attempts are made, none follows a successful one,
\* success is reported exactly when an attempt succeeded, every failed attempt
\* is followed by one backoff wait, and failing twice then succeeding makes 3
\* attempts and 2 waits.
C4_DownloadAttempts ==
    LET o == task.outcomes
        n == Len(task.outcomes)
    IN  /\ n <= 3
        /\ \A i \in 1..(n - 1) : ~o[i]
        /\ task.success <=> (\E i \in 1..n : o[i])
        /\ task.pc = "download" => ~task.success /\ n < 3
        /\ task.sleeps = Cardinality({i \in 1..n : ~o[i]})
        /\ o = <<FALSE, FALSE, TRUE>> => n = 3 /\ task.sleeps = 2 /\ task.success

W_C4 == task.outcomes = <<FALSE, FALSE, TRUE>> /\ task.pc = "notify"

\* C5: when every download attempt has failed, exactly 3 attempts were made,
\* the registry is as it was when the handler began, no organizer was sent
\* anything, and the handler ends by showing the download-failure message.
C5_AllAttemptsFail ==
    (task.h = "on_video" /\ task.pc \in {"after_loop", "return"}
        /\ task.outcomes # <<>> /\ ~task.success) =>
        /\ task.outcomes = <<FALSE, FALSE, FALSE>>
        /\ doc = task.before
        /\ EventsOf(task.log, OperatorEvents \cup {"add_record"}) = {}
        /\ task.pc = "return" =>
              /\ task.log[Len(task.log)] = Edit(task.upd, DownloadFailedText(task.lang))
              /\ task.ret # END

W_C5 ==
    /\ task.h = "on_video" /\ task.pc = "return"
    /\ task.outcomes = <<FALSE, FALSE, FALSE>>
    /\ Len(Registry) = 1

\* C6: media reported larger than 200 MiB is refused before any download
\* attempt: no attempt, registry untouched, no organizer notified, and the only
\* message is the too_large text.
C6_OversizeRejected ==
    (task.h = "on_video" /\ task.upd.media.size > SizeLimit) =>
        /\ task.pc = "return"
        /\ task.outcomes = <<>>
        /\ doc = task.before
        /\ task.log = <<Reply(task.upd, t(task.lang, "too_large"))>>

W_C6 ==
    /\ task.h = "on_video" /\ task.upd.media.size = SizeLimit + 1
    /\ task.pc = "return"
    /\ Len(Registry) = 1

\* C7: the registry is append-only: each step leaves the earlier contents as a
\* prefix of the later ones.
C7_AppendOnly == [][IsPrefix(Registry, Stored(doc'))]_vars

W_C7 ==
    /\ task.h = "broadcast" /\ task.pc = "return" /\ task.i = 3
    /\ Len(Registry) = 2

\* C8: no record passed to add_record is dropped: the registry holds every one
\* of them, in order, also when a video arrived while the on_video of another
\* user was in flight.
C8_NoAppendLost == Registry = handed

W_C8 ==
    /\ task.h = "on_video" /\ task.pc = "return" /\ task.ret = END
    /\ task.during = "on_video" /\ task.by # task.upd.user
    /\ Len(handed) = 2
    /\ handed[1].id = task.by /\ handed[2].id = task.upd.user

\* C9: registered_count run for an organizer reports the number of completed
\* submissions: 0 before the first, N after N, whoever made them.
C9_CountIsCompletions ==
    (task.h = "registered_count" /\ _is_admin(task.upd.user)) =>
        task.log = <<Ev("reply", task.upd.chat, CountText, Len(handed), 0)>>

W_C9 ==
    /\ task.h = "registered_count" /\ _is_admin(task.upd.user)
    /\ Len(handed) = 2 /\ handed[1].id = handed[2].id

\* C10: registered_count or broadcast run for a caller outside ORGANIZER_IDS
\* answers with the refusal only: the registry is not read and nothing is sent
\* to anyone else.
C10_NonAdminRefused ==
    (task.h \in {"registered_count", "broadcast"} /\ task.upd.user \notin {2, 3}) =>
        /\ task.pc = "return"
        /\ task.loads = 0
        /\ task.log = <<Reply(task.upd, AdminOnlyText)>>

W_C10 ==
    /\ task.h = "broadcast" /\ task.upd.user = 1
    /\ task.upd.text = <<"/broadcast", " ", "h", "i">>
    /\ Len(Registry) = 1

\* C11: broadcast run by an organizer with a non-empty text makes one send
\* attempt per record of the registry, in registry order (a repeated id gets a
\* send per record), a send that raises does not stop the later ones, and the
\* report gives success + failure = number of records with failure = number of
\* sends that raised; 5 records with the third raising gives (4, 1).
C11_BroadcastFanOut ==
    (task.h = "broadcast" /\ task.loads = 1) =>
        LET data == Stored(task.before)
            n == Len(data)
            sent == IF task.pc = "sending" THEN task.i - 1 ELSE n
            raised == {j \in 1..sent : task.log[j].ev = "send_failed"}
        IN  /\ task.pc \in {"sending", "return"}
            /\ sent <= n
            /\ Len(task.log) = (IF task.pc = "sending" THEN sent ELSE n + 1)
            /\ \A j \in 1..sent :
                  /\ task.log[j].ev \in {"send", "send_failed"}
                  /\ task.log[j].to = data[j].id
                  /\ task.log[j].text = BroadcastText
            /\ task.pc = "return" =>
                  /\ task.log[n + 1] =
                        Ev("reply", task.upd.chat, ReportText,
                           n - Cardinality(raised), Cardinality(raised))
                  /\ (n = 5 /\ raised = {3}) =>
                        task.log[n + 1].n = 4 /\ task.log[n + 1].m = 1

W_C11 ==
    /\ task.h = "broadcast" /\ task.pc = "return"
    /\ Len(Registry) = 5
    /\ Registry[1].id = Registry[2].id /\ Registry[4].id # Registry[5].id
    /\ Len(task.log) = 6
    /\ {j \in 1..5 : task.log[j].ev = "send_failed"} = {3}
    /\ task.log[6].n = 4 /\ task.log[6].m = 1

AttemptsTo(log, aid) ==
    { j \in EventsOf(log, {"send", "send_failed"}) : log[j].to = aid }

\* C12: after a successful submission one delivery attempt is made to every
\* organizer of ORGANIZER_IDS, whatever happened to the deliveries to the
\* others, and whichever deliveries fail the record stays in the registry and
\* the conversation ends.
C12_OperatorDeliveryIsolated ==
    /\ [](( task.h = "on_video" /\ task.success /\ task.pc \in {"notify", "return"}) =>
            /\ \A k \in 1..Len(ORGANIZER_IDS) :
                  Cardinality(AttemptsTo(task.log, ORGANIZER_IDS[k])) =
                      (IF task.pc = "return" \/ k < task.i THEN 1 ELSE 0)
            /\ Len(Registry) = Len(Stored(task.before)) + 1
            /\ Registry[Len(Registry)].id = task.upd.user
            /\ task.pc = "return" => task.ret = END)
    /\ [][ (task.h = "on_video" /\ task.success /\ task.pc = "return") =>
              /\ conv'[Key(task.upd)] = NoConversation
              /\ doc' = doc ]_vars

W_C12 ==
    /\ task.h = "on_video" /\ task.pc = "return" /\ task.ret = END
    /\ \E j \in 1..Len(task.log) :
          task.log[j].ev = "send_failed" /\ task.log[j].to = ORGANIZER_IDS[1]
    /\ \E j \in 1..Len(task.log) :
          task.log[j].ev = "forward" /\ task.log[j].to = ORGANIZER_IDS[2]
    /\ Len(Registry) = 1

Answers == {"lang", "university", "year", "fullname", "phone"}

\* C13: when on_video has completed a submission, the session of the user is
\* destroyed: once the handler has returned the user has no conversation
\* state and none of the answers lang, university, year, fullname, phone is
\* stored any more.
C13_SessionDestroyed ==
    [][ (task.h = "on_video" /\ task.pc = "return" /\ task.ret = END) =>
          /\ conv'[Key(task.upd)] = NoConversation
          /\ \A f \in Answers : Get(user_data'[task.upd.user], f) = <<>> ]_vars

InProgress(u) == {c \in Chats : conv[<<c, u>>] \in States}

\* C14: a user has at most one conversation in progress at any moment, over
\* all chats.
C14_OneSessionPerUser == \A u \in Users : Cardinality(InProgress(u)) <= 1

Unreadable(d) == ~(d.exists /\ d.parses)

\* C15: reading the registry never fails: with the document absent, or present
\* but unparsable, the read gives the empty sequence (an organizer's
\* registered_count answers 0), and an append made while the document is
\* unparsable leaves a document that holds the appended record and nothing
\* else.
C15_LoadNeverFails ==
    /\ [](Unreadable(doc) => _load_registry(doc) = <<>>)
    /\ []((task.h = "registered_count" /\ _is_admin(task.upd.user)
              /\ Unreadable(task.before)) =>
            task.log = <<Ev("reply", task.upd.chat, CountText, 0, 0)>>)
    /\ [][ (doc = CorruptDoc /\ doc' # doc) =>
              /\ doc'.exists /\ doc'.parses
              /\ Len(doc'.json) = 1
              /\ doc'.json = <<handed'[Len(handed')]>>
              /\ task'.pc = "notify" ]_vars

W_C15 ==
    /\ task.h = "on_video" /\ task.pc = "return" /\ task.ret = END
    /\ task.before = CorruptDoc
    /\ Len(Registry) = 1 /\ Registry = handed

\* C16: on a successful video step the download succeeds first, then the
\* record is appended to the registry, then the completion reply is sent, then
\* the organizers are notified, and the conversation ends last; no organizer
\* is sent anything for a submission whose record is not in the registry.
C16_OrderOnSuccess ==
    /\ [](task.h = "on_video" =>
            LET log == task.log
                added == EventsOf(log, {"add_record"})
                done == {j \in 1..Len(log) : log[j] = Edit(task.upd, t(task.lang, "done"))}
                ops == EventsOf(log, OperatorEvents)
            IN  /\ Cardinality(added) <= 1 /\ Cardinality(done) <= 1
                /\ added # {} =>
                      /\ task.success
                      /\ task.outcomes[Len(task.outcomes)]
                      /\ Len(Registry) = Len(Stored(task.before)) + 1
                      /\ Registry[Len(Registry)].id = task.upd.user
                /\ \A d \in done : \E a \in added : a < d
                /\ \A o \in ops : \E d \in done : d < o
                /\ ops # {} => Registry # <<>> /\ Registry[Len(Registry)] = handed[Len(handed)]
                /\ conv[Key(task.upd)] = VIDEO
                /\ task.ret = END => task.pc = "return" /\ task.i > Len(ORGANIZER_IDS))
    /\ [][ \A k \in Chats \X Users :
              (conv[k] = VIDEO /\ conv'[k] = NoConversation) =>
                  /\ task.h = "on_video" /\ Key(task.upd) = k
                  /\ task.pc = "return" /\ task.ret = END
                  /\ EventsOf(task.log, {"add_record"}) # {} ]_vars

W_C16 ==
    /\ task.h = "on_video" /\ task.pc = "return" /\ task.ret = END
    /\ task.outcomes = <<FALSE, TRUE>>
    /\ Len(task.log) = 7
    /\ task.log[2].ev = "add_record" /\ task.log[3].ev = "edit"
    /\ task.log[4].ev = "send" /\ task.log[5].ev = "forward"
    /\ task.log[6].ev = "send" /\ task.log[7].ev = "forward"

\* C17: the language of a session, once set, is uz or ru; it is set by the
\* language step only (on_lang, run for a conversation in LANG); and the lang
\* of every record of the registry is uz or ru.
C17_LanguageUzOrRu ==
    /\ [](\A u \in Users : Get(user_data[u], "lang") \in {<<>>, <<"uz">>, <<"ru">>})
    /\ [](\A i \in 1..Len(Registry) : Registry[i].lang \in {"uz", "ru"})
    /\ [][ \A u \in Users :
              Get(user_data'[u], "lang") # Get(user_data[u], "lang") =>
                  /\ task'.h = "on_lang" /\ task'.upd.user = u
                  /\ conv[Key(task'.upd)] = LANG ]_vars

EmptyString == <<<<>>>>     \* Get of a key that holds the empty string

\* C18: the text steps advance only on a text that is non-empty after
\* trimming: a conversation moves from FULLNAME to PHONE, and from PHONE to
\* VIDEO, only on such a text, so the stored fullname and phone and those of
\* every record of the registry are never the empty string.
C18_TextStepsNeedText ==
    /\ [][ \A k \in Chats \X Users :
              (<<conv[k], conv'[k]>> \in {<<FULLNAME, PHONE>>, <<PHONE, VIDEO>>}) =>
                  Strip(task.upd.text) # <<>> ]_vars
    /\ [](\A u \in Users : \A f \in {"fullname", "phone"} :
            Get(user_data[u], f) # EmptyString)
    /\ [](\A i \in 1..Len(Registry) :
            Registry[i].fullname # EmptyString /\ Registry[i].phone # EmptyString)

WrongMedia(upd) == upd.kind = "media" /\ VideoObj(upd) = NoMedia

\* C19: a message of the wrong media type sent to a conversation in VIDEO is
\* answered by on_video with the invalid_video text in the user's language,
\* and the conversation state, the stored answers and the registry stay as
\* they were.
C19_WrongMediaAnswered ==
    /\ [](\A upd \in Senders(PrivateChats) :
            (task.pc = "idle" /\ conv[Key(upd)] = VIDEO /\ WrongMedia(upd)) =>
                Handler(upd) = "on_video")
    /\ []((task.h = "on_video" /\ WrongMedia(task.upd)) =>
            /\ task.log = <<Reply(task.upd, t(task.lang, "invalid_video"))>>
            /\ doc = task.before)
    /\ [][ (task.h = "on_video" /\ WrongMedia(task.upd)) =>
              /\ conv'[Key(task.upd)] = VIDEO
              /\ user_data' = user_data ]_vars

\* C20: a /start sent to a conversation that is in one of the six states has
\* no handler: start runs only for a key with no conversation, a conversation
\* is never put back to LANG, and the step that drops the command leaves the
\* conversation states, the stored answers, the menus and the registry as
\* they were.
C20_StartIgnoredWhileActive ==
    /\ [](\A k \in PrivateChats :
            conv[k] \in States =>
                Handler(Update(k[1], k[2], "text", <<"/start">>, <<"", "">>, NoMedia))
                    = "none")
    /\ [][ (task.pc = "idle" /\ task'.h = "start") =>
              conv[Key(task'.upd)] = NoConversation ]_vars
    /\ [][ \A k \in Chats \X Users :
              (conv'[k] = LANG /\ conv[k] # LANG) => conv[k] = NoConversation ]_vars
    /\ [][ (starts' # starts /\ task' = task) =>
              /\ conv' = conv /\ user_data' = user_data
              /\ kb' = kb /\ doc' = doc ]_vars

W_C20 ==
    /\ starts = 2 /\ task.pc = "idle"
    /\ conv[<<1, 1>>] = VIDEO
    /\ conv[<<2, 2>>] = NoConversation /\ kb[2].all = {}
    /\ handed = <<>>

====
